---- MODULE Spec2Model ----
(***************************************************************************)
(* Model of src/main.py: Outlook automation helpers.                       *)
(*   is_valid_email          address validation through email.utils       *)
(*   send_email_via_outlook  compose and submit one outbound message       *)
(*   get_emails              scan a mailbox folder                         *)
(*   process_email           build one record, fanning out the attachments *)
(*   download_attachment     worker saving one attachment                  *)
(* Strings are sequences of one-character strings.  Times are counted in   *)
(* ticks, TicksPerSecond ticks to the second.                              *)
(***************************************************************************)
EXTENDS Integers, Sequences, FiniteSets, TLC

\* ------------------------------------------------------------------ bounds
MaxAddrLen == 4
MaxMsgs == 2
MaxAtts == 2
MaxTime == 2
MaxSendAtts == 2
TicksPerSecond == 2

\* An optional value is a sequence: <<>> is Python's None, <<v>> holds v.
None == <<>>
Some(v) == <<v>>

\* ------------------------------------------------------ generic helpers
Contains(s, c) == \E n \in 1..Len(s) : s[n] = c

StringsUpTo(alphabet, n) == UNION {[1..m -> alphabet] : m \in 0..n}

\* ---------------------------------------------- email.utils.parseaddr
\* The parser of email._parseaddr.AddrlistClass, restricted to fields made
\* of atom characters, '@', '.' and '"' (no white space, comments, groups,
\* route addresses or domain literals).  Positions are 1-based; every
\* operator returns the value it parsed and the position it stopped at.
At == "@"
Dot == "."
Quote == "\""
specials == {"(", ")", "<", ">", "@", ",", ":", ";", ".", "\"", "[", "]"}
atomends == specials \cup {" "}
phraseends == atomends \ {"."}

RECURSIVE getatom(_, _, _)
getatom(field, pos, ends) ==
    IF pos > Len(field) \/ field[pos] \in ends
    THEN [val |-> <<>>, pos |-> pos]
    ELSE LET r == getatom(field, pos + 1, ends)
         IN  [val |-> <<field[pos]>> \o r.val, pos |-> r.pos]

RECURSIVE getdelimited(_, _)
getdelimited(field, pos) ==
    IF pos > Len(field) THEN [val |-> <<>>, pos |-> pos]
    ELSE IF field[pos] = Quote THEN [val |-> <<>>, pos |-> pos + 1]
    ELSE LET r == getdelimited(field, pos + 1)
         IN  [val |-> <<field[pos]>> \o r.val, pos |-> r.pos]

\* getquote is entered on a '"': skip it, read up to the closing '"'.
getquote(field, pos) == getdelimited(field, pos + 1)

RECURSIVE getphraselist(_, _)
getphraselist(field, pos) ==
    IF pos > Len(field) THEN [plist |-> <<>>, pos |-> pos]
    ELSE IF field[pos] = Quote
    THEN LET q == getquote(field, pos)
             r == getphraselist(field, q.pos)
         IN  [plist |-> <<q.val>> \o r.plist, pos |-> r.pos]
    ELSE IF field[pos] \in phraseends THEN [plist |-> <<>>, pos |-> pos]
    ELSE LET a == getatom(field, pos, phraseends)
             r == getphraselist(field, a.pos)
         IN  [plist |-> <<a.val>> \o r.plist, pos |-> r.pos]

\* quote(): backslash-escape '\' and '"'.
RECURSIVE quote(_)
quote(str) ==
    IF str = <<>> THEN <<>>
    ELSE (IF Head(str) \in {"\\", Quote} THEN <<"\\", Head(str)>> ELSE <<Head(str)>>)
         \o quote(Tail(str))

RECURSIVE getdomain(_, _)
getdomain(field, pos) ==
    IF pos > Len(field) THEN [val |-> <<>>, bad |-> FALSE]
    ELSE IF field[pos] = Dot
    THEN LET r == getdomain(field, pos + 1)
         IN  [val |-> <<Dot>> \o r.val, bad |-> r.bad]
    ELSE IF field[pos] = At THEN [val |-> <<>>, bad |-> TRUE]
    ELSE IF field[pos] \in atomends THEN [val |-> <<>>, bad |-> FALSE]
    ELSE LET a == getatom(field, pos, atomends)
             r == getdomain(field, a.pos)
         IN  [val |-> a.val \o r.val, bad |-> r.bad]

\* The local-part loop of getaddrspec.
RECURSIVE getlocal(_, _)
getlocal(field, pos) ==
    IF pos > Len(field) THEN [val |-> <<>>, pos |-> pos]
    ELSE IF field[pos] = Dot
    THEN LET r == getlocal(field, pos + 1)
         IN  [val |-> <<Dot>> \o r.val, pos |-> r.pos]
    ELSE IF field[pos] = Quote
    THEN LET q == getquote(field, pos)
             r == getlocal(field, q.pos)
         IN  [val |-> <<Quote>> \o quote(q.val) \o <<Quote>> \o r.val, pos |-> r.pos]
    ELSE IF field[pos] \in atomends THEN [val |-> <<>>, pos |-> pos]
    ELSE LET a == getatom(field, pos, atomends)
             r == getlocal(field, a.pos)
         IN  [val |-> a.val \o r.val, pos |-> r.pos]

getaddrspec(field) ==
    LET l == getlocal(field, 1)
    IN  IF l.pos > Len(field) \/ field[l.pos] # At THEN l.val
        ELSE LET d == getdomain(field, l.pos + 1)
                 domain == IF d.bad THEN <<>> ELSE d.val
             IN  IF domain = <<>> THEN <<>> ELSE l.val \o <<At>> \o domain

\* The address part of the first address of the field.
getaddress(field) ==
    LET p == getphraselist(field, 1)
    IN  IF p.pos > Len(field)
        THEN IF p.plist # <<>> THEN p.plist[1] ELSE <<>>
        ELSE IF field[p.pos] \in {Dot, At} THEN getaddrspec(field)
        ELSE IF p.plist # <<>> THEN p.plist[1] ELSE <<>>

parseaddr(addr) == IF addr = <<>> THEN <<>> ELSE getaddress(addr)

is_valid_email(email) == Contains(parseaddr(email), At)


\* ------------------------------------------------------------- state
VARIABLES
    vaddr,      \* is_valid_email: the argument
    vres,       \* is_valid_email: the returned value, None before the call
    spc,        \* send_email_via_outlook: position of the call
    sargs,      \* send_email_via_outlook: the arguments
    fs,         \* the absolute paths that exist on the file system
    mail,       \* the MailItem being composed, None before CreateItem
    sj,         \* send_email_via_outlook: loop index into the current list
    outbox,     \* the messages submitted to the mail client's send queue
    sres,       \* send_email_via_outlook: returned status, None before return
    slog,       \* what the call did: probes, validations, raised steps
    pc,         \* get_emails: position of the controlling thread
    args,       \* get_emails: the arguments
    store,      \* the child folders of the inbox, with their items
    disk,       \* the output directory: whether it exists, the files in it
    messages,   \* get_emails: the restricted and sorted items
    i,          \* get_emails: index of the current message in messages
    emails,     \* get_emails: the list being returned
    futures,    \* process_email: the futures of the current message
    workers,    \* the pool threads that are running a download
    attachment_details, \* process_email: the records collected so far
    nextId,     \* the next fresh identifier uuid4 hands out
    glog        \* what the scan did: queries, visits, failures, saves

validVars == <<vaddr, vres>>
sendVars == <<spc, sargs, fs, mail, sj, outbox, sres, slog>>
scanVars == <<pc, args, store, disk, messages, i, emails, futures, workers,
              attachment_details, nextId, glog>>
vars == <<validVars, sendVars, scanVars>>

\* ----------------------------------------------------- is_valid_email
AddrAlphabet == {"u", At, Dot, Quote}
user_at_domain == <<"u","s","e","r","@","d","o","m","a","i","n",".","c","o","m">>
user_at == <<"u","s","e","r","@">>
quoted_user_at == <<Quote,"u","s","e","r","@",Quote>>
AddrInputs == StringsUpTo(AddrAlphabet, MaxAddrLen)
                \cup {user_at_domain, user_at, quoted_user_at}

ValidIdle == vaddr = <<>> /\ vres = None

InitValid == vaddr \in AddrInputs /\ vres = None

CallIsValidEmail ==
    /\ vres = None
    /\ vres' = Some(is_valid_email(vaddr))
    /\ UNCHANGED <<vaddr, sendVars, scanVars>>

\* ------------------------------------------- send_email_via_outlook
Cwd == <<"/", "cwd">>
abspath(path) == IF path # <<>> /\ path[1] = "/" THEN path ELSE Cwd \o path
exists(path) == path \in fs

SendPaths == {<<"a">>, <<"/", "cwd", "b">>, <<"c">>}
ImagePaths == {<<"/", "cwd", "b">>}
SendRecipients == {<<"u", At, "d">>, <<"u", At>>, <<"u">>}

\* The returned strings: the literal text and the interpolated value.
StatusNotInstalled == [text |-> "Outlook is not installed or accessible.", arg |-> <<>>]
StatusInvalid(to) == [text |-> "Invalid email addresses provided: ", arg |-> to]
StatusSent == [text |-> "Email sent successfully.", arg |-> <<>>]
StatusError(e) == [text |-> "Error sending email: ", arg |-> e]
NoMail == [created |-> FALSE, To |-> <<>>, html |-> FALSE, Attachments |-> <<>>]

SendIdle ==
    /\ spc = "idle"
    /\ sargs = [to |-> <<>>, attachments |-> <<>>, html_body |-> FALSE,
                embedded_images |-> <<>>]
    /\ fs = {} /\ mail = NoMail /\ sj = 0
    /\ outbox = <<>> /\ sres = None /\ slog = <<>>

InitSend ==
    /\ spc = "probe"
    /\ sargs \in [to : SendRecipients,
                  attachments : UNION {[1..n -> [path : SendPaths]] : n \in 0..MaxSendAtts},
                  html_body : BOOLEAN,
                  embedded_images : {<<>>} \cup {<<p>> : p \in ImagePaths}]
    /\ fs \in SUBSET {abspath(p) : p \in SendPaths}
    /\ mail = NoMail /\ sj = 0 /\ outbox = <<>> /\ sres = None /\ slog = <<>>

\* line 51-58: the outcome of EnsureDispatch; both except clauses of
\* is_outlook_installed lead to "return False".  The clearing of the
\* gen_py cache at line 45-49 is taken to succeed (LOCALAPPDATA is defined).
is_outlook_installed(dispatched) == dispatched

\* line 86-87
SendProbe ==
    /\ spc = "probe"
    /\ \E dispatched \in BOOLEAN :
         /\ slog' = Append(slog, IF dispatched THEN "probe_ok" ELSE "probe_failed")
         /\ IF ~is_outlook_installed(dispatched)
            THEN spc' = "returned" /\ sres' = Some(StatusNotInstalled)
            ELSE spc' = "validate" /\ sres' = sres
    /\ UNCHANGED <<sargs, fs, mail, sj, outbox, validVars, scanVars>>

\* line 90-91
SendValidate ==
    /\ spc = "validate"
    /\ slog' = Append(slog, "validate")
    /\ IF ~is_valid_email(sargs.to)
       THEN spc' = "returned" /\ sres' = Some(StatusInvalid(sargs.to))
       ELSE spc' = "create" /\ sres' = sres
    /\ UNCHANGED <<sargs, fs, mail, sj, outbox, validVars, scanVars>>

\* A raising step with no handler around it: the exception leaves the call.
SendPropagates(e) ==
    /\ spc' = "raised"
    /\ sres' = sres
    /\ slog' = Append(slog, "raised")

\* The except clause of line 137-139.
SendFails(e) ==
    /\ spc' = "returned"
    /\ sres' = Some(StatusError(e))
    /\ slog' = Append(slog, "raised")

\* line 95-112: Dispatch, CreateItem and the assignments of the fields.
SendCreate ==
    /\ spc = "create"
    /\ \E outcome \in {"ok", "no_item", "item_error"} :
         /\ mail' = IF outcome = "no_item" THEN mail
                    ELSE [created |-> TRUE, To |-> sargs.to,
                          html |-> sargs.html_body, Attachments |-> <<>>]
         /\ IF outcome = "ok"
            THEN spc' = "embed" /\ sres' = sres /\ slog' = Append(slog, "create")
            ELSE SendFails(<<"create">>)
    /\ sj' = 1
    /\ UNCHANGED <<sargs, fs, outbox, validVars, scanVars>>

\* "if embedded_images:" and "if attachments:" treat None as the empty list.
images == sargs.embedded_images
attachments == sargs.attachments

\* line 115-121: Attachments.Add raises for a file that is not there.
SendEmbed ==
    /\ spc = "embed"
    /\ IF sj > Len(images)
       THEN /\ spc' = "attach" /\ sj' = 1
            /\ UNCHANGED <<mail, sres, slog>>
       ELSE \E ok \in BOOLEAN :
              IF ok /\ exists(images[sj])
              THEN /\ mail' = [mail EXCEPT !.Attachments = Append(@, images[sj])]
                   /\ sj' = sj + 1
                   /\ UNCHANGED <<spc, sres, slog>>
              ELSE /\ SendFails(<<"embed">>)
                   /\ UNCHANGED <<mail, sj>>
    /\ UNCHANGED <<sargs, fs, outbox, validVars, scanVars>>

AddsAnyAttachment(attch_path) == TRUE

\* line 127
AddsAttachment(attch_path) == exists(attch_path)

\* line 124-130
SendAttach ==
    /\ spc = "attach"
    /\ IF sj > Len(attachments)
       THEN /\ spc' = "send" /\ sj' = sj
            /\ UNCHANGED <<mail, sres, slog>>
       ELSE LET attch_path == abspath(attachments[sj].path)
            IN  IF AddsAttachment(attch_path)
                THEN \E ok \in BOOLEAN :
                       IF ok
                       THEN /\ mail' = [mail EXCEPT !.Attachments = Append(@, attch_path)]
                            /\ sj' = sj + 1
                            /\ UNCHANGED <<spc, sres, slog>>
                       ELSE /\ SendFails(<<"attach">>)
                            /\ UNCHANGED <<mail, sj>>
                ELSE /\ sj' = sj + 1
                     /\ slog' = Append(slog, "warning")
                     /\ UNCHANGED <<mail, spc, sres>>
    /\ UNCHANGED <<sargs, fs, outbox, validVars, scanVars>>

SendAgain == "send"

\* What the call does after mail.Send() has returned: line 134-135.
AfterSend == "returned"

\* line 133-135: a Send that raises may or may not have queued the message.
SendSend ==
    /\ spc = "send"
    /\ \E outcome \in {"sent", "raised_unsent", "raised_sent"} :
         /\ outbox' = IF outcome = "raised_unsent" THEN outbox ELSE Append(outbox, mail)
         /\ IF outcome = "sent"
            THEN /\ spc' = AfterSend
                 /\ sres' = IF AfterSend = "returned" THEN Some(StatusSent) ELSE sres
                 /\ slog' = Append(slog, "send")
            ELSE SendFails(<<"send">>)
    /\ UNCHANGED <<sargs, fs, mail, sj, validVars, scanVars>>


\* ----------------------------------------------------------- get_emails

Range(f) == {f[n] : n \in DOMAIN f}

\* since.strftime('%Y-%m-%d %H:%M:%S'): the fraction of a second is dropped.
strftime(t) == t - (t % TicksPerSecond)

RECURSIVE Like(_, _)
\* LIKE of the query language: '%' stands for any run of characters, '_'
\* for any one character.
Like(pattern, str) ==
    IF pattern = <<>> THEN str = <<>>
    ELSE IF Head(pattern) = "%"
    THEN Like(Tail(pattern), str) \/ (str # <<>> /\ Like(pattern, Tail(str)))
    ELSE /\ str # <<>>
         /\ Head(pattern) \in {"_", Head(str)}
         /\ Like(Tail(pattern), Tail(str))

\* line 196: the subject is pasted between two '%' without escaping.
SubjectFilter(subject, msg) == Like(<<"%">> \o subject \o <<"%">>, msg.Subject)

\* line 199-201
DateFilter(since, msg) ==
    since = None \/ msg.ReceivedTime >= strftime(since[1])

Restrict(items, subject, since) ==
    SelectSeq(items, LAMBDA m : SubjectFilter(subject, m) /\ DateFilter(since, m))

\* line 204: every arrangement of the items with the received times
\* descending; the order of items with equal times is not determined.
Sort(items) ==
    {[n \in 1..Len(items) |-> items[p[n]]] :
        p \in {q \in [1..Len(items) -> 1..Len(items)] :
                 /\ \A a, b \in 1..Len(items) : a # b => q[a] # q[b]
                 /\ \A a, b \in 1..Len(items) :
                      a < b => items[q[a]].ReceivedTime >= items[q[b]].ReceivedTime}}

\* line 208
Included(include_read, msg) == (~include_read /\ msg.UnRead) \/ include_read

\* os.path.splitext: from the last dot on, unless only dots precede it.
splitext(name) ==
    LET dots == {n \in 1..Len(name) : name[n] = Dot}
        last == CHOOSE n \in dots : \A m \in dots : m <= n
    IN  IF dots # {} /\ \E n \in 1..Len(name) : n < last /\ name[n] # Dot
        THEN SubSeq(name, last, Len(name))
        ELSE <<>>

Allowed(allowed_file_types, FileName) ==
    allowed_file_types = <<>> \/ splitext(FileName) \in Range(allowed_file_types)

\* A worker that saves whatever it is given.
download_any_attachment(attachment, allowed_file_types, outcome, id) ==
    IF outcome = "raise_out"
    THEN [raised |-> TRUE, ret |-> None]
    ELSE IF outcome = "saved"
    THEN [raised |-> FALSE,
          ret |-> Some([path |-> <<"dir">> \o attachment.FileName,
                        name |-> attachment.FileName, id |-> id])]
    ELSE [raised |-> FALSE, ret |-> None]

\* line 284-301.  outcome is what the environment does to this call:
\* "saved" (no step raises), "save_error" (a step of the try block raises
\* and the handler returns None), "raise_out" (FileName raises at line 284
\* or in the handler at line 299, and the exception leaves the worker).
download_attachment(attachment, allowed_file_types, outcome, id) ==
    IF outcome = "raise_out"
    THEN [raised |-> TRUE, ret |-> None]
    ELSE IF Allowed(allowed_file_types, attachment.FileName) /\ outcome = "saved"
    THEN [raised |-> FALSE,
          ret |-> Some([path |-> <<"dir">> \o attachment.FileName,
                        name |-> attachment.FileName, id |-> id])]
    ELSE [raised |-> FALSE, ret |-> None]

\* A future that is never waited for.
FutureNotAwaited(f) == TRUE

\* future.result() at line 248 and the exit of the with block at line 241
\* (shutdown(wait=True)) both block until the future is done.
FutureDone(f) == f.state = "done"

\* Collection in completion order: a finished future first, if there is one.
NextCompletedFuture(futs) ==
    LET open == {n \in 1..Len(futs) : ~futs[n].taken}
        ready == {n \in open : futs[n].state = "done"}
        from == IF ready # {} THEN ready ELSE open
    IN  CHOOSE n \in from : \A m \in from : n <= m

\* line 246: "for future in futures" takes the futures in submission order.
NextFuture(futs) ==
    CHOOSE n \in 1..Len(futs) : ~futs[n].taken /\ \A m \in 1..(n - 1) : futs[m].taken

StopScan == "returned"

\* Where the scan goes after process_email has logged a failure at line 270.
AfterMessageFailure == "loop"

ScanSubjects == {<<"a">>, <<"_">>}
MsgSubjects == {<<"a">>, <<"b">>}
FileNames == {<<"x", Dot, "p">>, <<"y", Dot, "d">>, <<Dot, "p">>}
AllowLists == {<<>>, <<<<Dot, "p">>>>}
ScanAccounts == {<<"u", At, "d">>, <<"u">>}
FolderNames == {"Reports", "reports"}
TheFolder == "Reports"

Message(id, subject, time, unread, atts) ==
    [ConversationID |-> id, Subject |-> subject, ReceivedTime |-> time,
     UnRead |-> unread, Attachments |-> atts]

ScanArgs(email, subject, folder_name, allowed, include_read, since) ==
    [email |-> email, subject |-> subject, folder_name |-> folder_name,
     allowed_file_types |-> allowed, include_read |-> include_read, since |-> since]

NoLog == [queried |-> FALSE, visited |-> <<>>, failed |-> {}, aborted |-> FALSE,
          saves |-> {}]

ScanLocals ==
    /\ disk = [dir |-> FALSE, files |-> {}]
    /\ messages = <<>> /\ i = 0 /\ emails = <<>> /\ futures = <<>> /\ workers = {}
    /\ attachment_details = <<>> /\ nextId = 1 /\ glog = NoLog

ScanIdle ==
    /\ pc = "idle"
    /\ args = ScanArgs(<<>>, <<>>, "", <<>>, FALSE, None)
    /\ store = <<>>
    /\ ScanLocals

AttLists == UNION {[1..n -> [FileName : FileNames]] : n \in 0..MaxAtts}

\* Folders whose messages differ in subject, time and read state.
InitFilterCases ==
    /\ \E n \in 0..MaxMsgs :
         \E subj \in [1..n -> MsgSubjects], time \in [1..n -> 0..MaxTime],
            unread \in [1..n -> BOOLEAN] :
           store = <<[Name |-> TheFolder,
                      Items |-> [m \in 1..n |->
                                   Message(m, subj[m], time[m], unread[m], <<>>)]]>>
    /\ \E subject \in ScanSubjects, include_read \in BOOLEAN,
          since \in {None} \cup {Some(t) : t \in 0..MaxTime} :
         args = ScanArgs(<<"u", At, "d">>, subject, TheFolder, <<>>, include_read, since)

\* Two messages with attachments, any account and folder name.
InitBuildCases ==
    /\ \E first \in AttLists, second \in {<<>>, <<[FileName |-> <<"x", Dot, "p">>]>>} :
         store = <<[Name |-> TheFolder,
                    Items |-> <<Message(1, <<"a">>, 1, TRUE, first),
                               Message(2, <<"a">>, 0, TRUE, second)>>]>>
    /\ \E email \in ScanAccounts, folder_name \in FolderNames, allowed \in AllowLists :
         args = ScanArgs(email, <<"a">>, folder_name, allowed, FALSE, None)

InitScan ==
    /\ pc = "create_folder"
    /\ InitFilterCases \/ InitBuildCases
    /\ ScanLocals

\* line 214-218: the outer handler logs and the accumulated list is returned.
ScanAborts ==
    /\ pc' = "returned"
    /\ glog' = [glog EXCEPT !.aborted = TRUE]

\* line 168-172: create_folder and os.makedirs run outside every handler.
ScanCreateFolder ==
    /\ pc = "create_folder"
    /\ \E ok \in BOOLEAN :
         IF ok THEN pc' = "validate" /\ disk' = [disk EXCEPT !.dir = TRUE]
         ELSE pc' = "raised" /\ disk' = disk
    /\ UNCHANGED <<args, store, messages, i, emails, futures, workers,
                   attachment_details, nextId, glog, validVars, sendVars>>

\* line 175-177
ScanValidate ==
    /\ pc = "validate"
    /\ pc' = IF ~is_valid_email(args.email) THEN "returned" ELSE "find_folder"
    /\ UNCHANGED <<args, store, disk, messages, i, emails, futures, workers,
                   attachment_details, nextId, glog, validVars, sendVars>>

\* line 184-190: the first child folder with exactly the name, if any.
found_folder ==
    LET hits == {n \in 1..Len(store) : store[n].Name = args.folder_name}
    IN  IF hits = {} THEN None
        ELSE Some(store[CHOOSE n \in hits : \A m \in hits : n <= m])

\* line 180-193
ScanFindFolder ==
    /\ pc = "find_folder"
    /\ \E ok \in BOOLEAN :
         IF ~ok THEN ScanAborts
         ELSE /\ pc' = IF found_folder = None THEN "returned" ELSE "restrict"
              /\ glog' = glog
    /\ UNCHANGED <<args, store, disk, messages, i, emails, futures, workers,
                   attachment_details, nextId, validVars, sendVars>>

\* line 196-204
ScanRestrict ==
    /\ pc = "restrict"
    /\ \E ok \in BOOLEAN :
         IF ~ok THEN ScanAborts /\ UNCHANGED <<messages, i>>
         ELSE /\ messages' \in Sort(Restrict(found_folder[1].Items, args.subject, args.since))
              /\ i' = 1
              /\ pc' = "loop"
              /\ glog' = [glog EXCEPT !.queried = TRUE]
    /\ UNCHANGED <<args, store, disk, emails, futures, workers,
                   attachment_details, nextId, validVars, sendVars>>

\* The except clause of line 269-270, entered for message msg.
MessageFails(msg) ==
    /\ pc' = AfterMessageFailure
    /\ i' = i + 1
    /\ glog' = [glog EXCEPT !.visited = Append(@, msg.ConversationID),
                            !.failed = @ \cup {msg.ConversationID}]

\* line 207-208 and, for an included message, line 235-245 of
\* process_email: one future per attachment is submitted.
ScanLoop ==
    /\ pc = "loop"
    /\ IF i > Len(messages)
       THEN /\ pc' = "returned"
            /\ UNCHANGED <<i, futures, attachment_details, glog>>
       ELSE LET msg == messages[i] IN
            \E unread_ok \in BOOLEAN, attachments_ok \in BOOLEAN :
              IF ~args.include_read /\ ~unread_ok
              THEN /\ ScanAborts
                   /\ UNCHANGED <<i, futures, attachment_details>>
              ELSE IF ~Included(args.include_read, msg)
              THEN /\ i' = i + 1
                   /\ glog' = [glog EXCEPT !.visited = Append(@, msg.ConversationID)]
                   /\ UNCHANGED <<pc, futures, attachment_details>>
              ELSE IF ~attachments_ok
              THEN /\ MessageFails(msg)
                   /\ UNCHANGED <<futures, attachment_details>>
              ELSE /\ futures' = [n \in 1..Len(msg.Attachments) |->
                                    [msg |-> msg.ConversationID, att |-> n,
                                     state |-> "pending", taken |-> FALSE,
                                     raised |-> FALSE, ret |-> None]]
                   /\ attachment_details' = <<>>
                   /\ pc' = "collect"
                   /\ UNCHANGED <<i, glog>>
    /\ UNCHANGED <<args, store, disk, messages, emails, workers, nextId,
                   validVars, sendVars>>

\* The item of the scanned folder that has the given ConversationID.
ItemOf(id) ==
    LET items == found_folder[1].Items
    IN  items[CHOOSE n \in 1..Len(items) : items[n].ConversationID = id]

\* A pool thread picks up a submitted download.  ThreadPoolExecutor() has
\* at least five threads, more than a message has attachments here, so
\* every submitted download may run at once.
WorkerStart(n) ==
    /\ n \in 1..Len(futures)
    /\ futures[n].state = "pending"
    /\ futures' = [futures EXCEPT ![n].state = "running"]
    /\ workers' = workers \cup {[msg |-> futures[n].msg, att |-> n]}
    /\ UNCHANGED <<pc, args, store, disk, messages, i, emails, attachment_details,
                   nextId, glog, validVars, sendVars>>

\* The download of line 272-301 runs and its future completes.
WorkerFinish(n) ==
    /\ n \in 1..Len(futures)
    /\ futures[n].state = "running"
    /\ \E outcome \in {"saved", "save_error", "raise_out"} :
         LET attachment == ItemOf(futures[n].msg).Attachments[n]
             r == download_attachment(attachment, args.allowed_file_types, outcome, nextId)
         IN  /\ futures' = [futures EXCEPT ![n].state = "done",
                                           ![n].raised = r.raised, ![n].ret = r.ret]
             /\ nextId' = IF r.ret # None THEN nextId + 1 ELSE nextId
             /\ disk' = IF r.ret # None
                        THEN [disk EXCEPT !.files = @ \cup {r.ret[1].path}]
                        ELSE disk
             /\ glog' = [glog EXCEPT !.saves = @ \cup
                            {[msg |-> futures[n].msg, att |-> n, outcome |-> outcome,
                              id |-> IF r.ret # None THEN nextId ELSE 0]}]
    /\ workers' = workers \ {[msg |-> futures[n].msg, att |-> n]}
    /\ UNCHANGED <<pc, args, store, messages, i, emails, attachment_details,
                   validVars, sendVars>>

\* line 246-252: the result of the next future is taken.
Collect ==
    /\ pc = "collect"
    /\ \E n \in 1..Len(futures) : ~futures[n].taken
    /\ LET n == NextFuture(futures) IN
         /\ FutureDone(futures[n])
         /\ futures' = [futures EXCEPT ![n].taken = TRUE]
         /\ attachment_details' =
               IF ~futures[n].raised /\ futures[n].ret # None
               THEN Append(attachment_details, futures[n].ret[1])
               ELSE attachment_details
    /\ UNCHANGED <<pc, args, store, disk, messages, i, emails, workers, nextId,
                   glog, validVars, sendVars>>

email_detail(msg, files) ==
    [name |-> msg.Subject, subject |-> msg.Subject,
     conversation_id |-> msg.ConversationID, files |-> files, status |-> "pending"]

\* line 241 (leaving the with block) and line 254-270: the record is
\* assembled and appended, unless a property of the message raises.
Assemble ==
    /\ pc = "collect"
    /\ \A n \in 1..Len(futures) : futures[n].taken /\ FutureDone(futures[n])
    /\ \E ok \in BOOLEAN :
         IF ok
         THEN /\ emails' = Append(emails, email_detail(messages[i], attachment_details))
              /\ pc' = "loop"
              /\ i' = i + 1
              /\ glog' = [glog EXCEPT !.visited = Append(@, messages[i].ConversationID)]
         ELSE /\ MessageFails(messages[i])
              /\ emails' = emails
    /\ UNCHANGED <<args, store, disk, messages, futures, workers,
                   attachment_details, nextId, validVars, sendVars>>

NextScan ==
    \/ ScanCreateFolder \/ ScanValidate \/ ScanFindFolder \/ ScanRestrict
    \/ ScanLoop \/ Collect \/ Assemble
    \/ \E n \in DOMAIN futures : WorkerStart(n)
    \/ \E n \in DOMAIN futures : WorkerFinish(n)

NextValid == CallIsValidEmail
NextSend == SendProbe \/ SendValidate \/ SendCreate \/ SendEmbed \/ SendAttach \/ SendSend

\* One call of one operation; the state of the other two stays idle.
ValidCall == InitValid /\ SendIdle /\ ScanIdle
SendCall == InitSend /\ ValidIdle /\ ScanIdle
ScanCall == InitScan /\ ValidIdle /\ SendIdle

SpecValid == ValidCall /\ [][NextValid]_vars
SpecSend == SendCall /\ [][NextSend]_vars
SpecScan == ScanCall /\ [][NextScan]_vars


\* ================================================================ claims
Returned(status) == spc = "returned" /\ sres = Some(status)

RECURSIVE DomainOf(_)
\* The part of an address after its last '@'; empty when there is no '@'.
DomainOf(a) ==
    IF ~Contains(a, At) THEN <<>>
    ELSE IF Contains(Tail(a), At) THEN DomainOf(Tail(a))
    ELSE Tail(a)

\* C9: is_valid_email returns true iff the parsed address has a non-empty
\* domain component; false for every string without '@', true for
\* "user@domain.com", false for "user@".
C9_ValidIffDomain ==
    vres # None =>
        /\ vres[1] = (DomainOf(parseaddr(vaddr)) # <<>>)
        /\ (~Contains(vaddr, At) => vres[1] = FALSE)
        /\ (vaddr = user_at_domain => vres[1] = TRUE)
        /\ (vaddr = user_at => vres[1] = FALSE)

\* C5: within one call the message is submitted to the send queue at most
\* once, and exactly once when the call returns the success status.
C5_SubmittedOnce ==
    /\ Len(outbox) <= 1
    /\ (Returned(StatusSent) => Len(outbox) = 1)

C5_Witness == Returned(StatusSent) /\ Len(outbox) = 1 /\ outbox[1].To = sargs.to

StatusTexts == <<StatusNotInstalled.text, StatusInvalid(<<>>).text,
                 StatusError(<<>>).text, StatusSent.text>>

RECURSIVE ExistingPaths(_)
\* The absolute paths of the attachments whose file exists, in order.
ExistingPaths(atts) ==
    IF atts = <<>> THEN <<>>
    ELSE (IF abspath(Head(atts).path) \in fs THEN <<abspath(Head(atts).path)>> ELSE <<>>)
         \o ExistingPaths(Tail(atts))

Scanned == pc = "returned" /\ glog.queried /\ ~glog.aborted

RecordIds == [n \in 1..Len(emails) |-> emails[n].conversation_id]

RecordsOf(id) == {n \in 1..Len(emails) : emails[n].conversation_id = id}

\* The filter as the claim words it: the subject filter of the query, the
\* received time compared with since itself, unread or includeRead.
Matches(m) ==
    /\ SubjectFilter(args.subject, m)
    /\ (args.since = None \/ m.ReceivedTime >= args.since[1])
    /\ (m.UnRead \/ args.include_read)

\* C1: when no message fails, the scan returns exactly one record for every
\* message that matches the subject filter, was received at or after since
\* (when given) and is unread or includeRead, none for any other message,
\* and the records are in descending order of received time.
C1_ScanReturnsMatching ==
    (Scanned /\ glog.failed = {}) =>
        /\ \A n \in 1..Len(found_folder[1].Items) :
             LET m == found_folder[1].Items[n]
             IN  Cardinality(RecordsOf(m.ConversationID)) = IF Matches(m) THEN 1 ELSE 0
        /\ \A a, b \in 1..Len(emails) :
             a < b => ItemOf(RecordIds[a]).ReceivedTime >= ItemOf(RecordIds[b]).ReceivedTime

SavedFor(id) ==
    {s \in glog.saves :
        /\ s.msg = id
        /\ s.outcome = "saved"
        /\ Allowed(args.allowed_file_types, ItemOf(id).Attachments[s.att].FileName)}

\* C2: whatever saves fail, inside the worker or out of it, the record of a
\* message is produced and its files holds exactly one entry for every
\* attachment that passes the allow-list and was saved, and no other entry.
C2_FilesAreSavedAllowed ==
    /\ \A n \in 1..Len(emails) :
         LET rec == emails[n]
             saved == SavedFor(rec.conversation_id)
         IN  /\ Len(rec.files) = Cardinality(saved)
             /\ {f.id : f \in Range(rec.files)} = {s.id : s \in saved}
             /\ \A f \in Range(rec.files) :
                  \E s \in saved :
                    /\ s.id = f.id
                    /\ f.name = ItemOf(rec.conversation_id).Attachments[s.att].FileName
    /\ \A n \in 1..Len(glog.visited) :
         LET id == glog.visited[n]
         IN  (Included(args.include_read, ItemOf(id)) /\ id \notin glog.failed)
                => RecordsOf(id) # {}

C2_Witness ==
    \E n \in 1..Len(emails) :
      /\ Len(emails[n].files) = 1
      /\ args.allowed_file_types # <<>>
      /\ \E s, t \in glog.saves :
           /\ s.msg = emails[n].conversation_id /\ s.outcome = "raise_out"
           /\ t.msg = s.msg /\ t.outcome = "saved" /\ t.id = emails[n].files[1].id

IsPrefix(s, t) == Len(s) <= Len(t) /\ SubSeq(t, 1, Len(s)) = s

C4_BadInputReturnsEmpty ==
    (~is_valid_email(args.email) \/ found_folder = None) =>
        /\ pc # "raised"
        /\ ~glog.queried /\ futures = <<>> /\ disk.files = {}
        /\ (pc = "returned" => emails = <<>>)

\* C8: the workers of one message have all finished before its record is
\* assembled and before a worker of the next message starts; workers of
\* two different messages are never active together.
C8_BarrierPerMessage ==
    /\ [](/\ \A v, w \in workers : v.msg = w.msg
          /\ workers # {} =>
               pc = "collect" /\ \A w \in workers : w.msg = messages[i].ConversationID)
    /\ [][emails' # emails => workers = {} /\ workers' = {}]_vars
    /\ [][(pc = "loop" /\ pc' = "collect") => workers = {}]_vars

C8_Witness ==
    /\ workers # {}
    /\ i = 2
    /\ Len(emails) = 1
    /\ Len(emails[1].files) = 2

SourceIndex(id, f) == (CHOOSE s \in glog.saves : s.msg = id /\ s.id = f.id).att

\* C10: whatever the order in which the workers finish, the files of a
\* record list the saved attachments in the order of the source message.
C10_FilesInSubmissionOrder ==
    \A n \in 1..Len(emails) :
      \A a, b \in 1..Len(emails[n].files) :
        a < b => SourceIndex(emails[n].conversation_id, emails[n].files[a])
                   < SourceIndex(emails[n].conversation_id, emails[n].files[b])

\* The second attachment was saved (and numbered) before the first.
C10_Witness ==
    \E n \in 1..Len(emails) :
      /\ Len(emails[n].files) = 2
      /\ emails[n].files[1].id > emails[n].files[2].id

====
